---- MODULE Spec2Model ----
(***************************************************************************)
(* File-system knowledge-base store of src/utils/kb_store.py.              *)
(*                                                                         *)
(* The persisted state is the storage root, one directory per record with  *)
(* meta.json, schema.json and prompts.json, and index.json.  Every public  *)
(* operation that writes is one action; the operations that only read are  *)
(* operators over the persisted state.                                     *)
(***************************************************************************)
EXTENDS Naturals, Sequences, FiniteSets, TLC

\* ---------------------------------------------------------------- bounds

\* Number of distinct values uuid4()[:8] can take in the model.
MaxIds == 2
\* Last instant of the clock; instants are 0..MaxClock.
MaxClock == 1
\* Clock instants per second (scaled down from 10^6 microseconds).
TicksPerSecond == 2
\* Number of steps (calls of the writing operations and outside
\* modifications) in one behaviour.
MaxCalls == 3
\* Number of outside modifications of the files in one behaviour.
MaxFaults == 1

\* ---------------------------------------------------------------- values

IdDigits == <<"a", "b", "c", "d">>
Ids == {IdDigits[i] : i \in 1..MaxIds}

\* The name and dataset name a caller creates a record with, and those a
\* caller updates it to.
CreateNames == {"Movies"}
CreateDatasets == {"imdb_sample"}
UpdateNames == {"Films"}
UpdateDatasets == {"tmdb"}

\* Python's None as a document argument and as a return value.
None == [none |-> TRUE]
\* Python's None as a string argument.
NoneStr == "<None>"

_default_schema ==
    [Nodes |-> "default_nodes", Relations |-> "default_relations",
     Attributes |-> "default_attributes"]

_default_prompts ==
    [construction |-> "", decomposition |-> "", retrieval |-> ""]

\* Documents a caller supplies.
SchemaArgs == {[Nodes |-> "film"]}
PromptsArgs == {[construction |-> "extract", retrieval |-> "answer"]}

\* ------------------------------------------------------------ timestamps

\* Character codes of the characters isoformat() + "Z" produces.
ChDot == 46
ChZero == 48
ChZ == 90

\* datetime.isoformat() + "Z" of instant t: the seconds, then the fraction
\* only when it is not zero, then "Z".
IsoFormat(t) ==
    LET sec == t \div TicksPerSecond
        frac == t % TicksPerSecond
    IN  <<ChZero + sec>>
        \o (IF frac = 0 THEN <<>> ELSE <<ChDot, ChZero + frac>>)
        \o <<ChZ>>

\* Python's s <= t on strings: lexicographic on the character codes.
RECURSIVE StrLeq(_, _)
StrLeq(s, t) ==
    IF s = <<>> THEN TRUE
    ELSE IF t = <<>> THEN FALSE
    ELSE IF Head(s) # Head(t) THEN Head(s) < Head(t)
    ELSE StrLeq(Tail(s), Tail(t))

\* ------------------------------------------------------------------ files

Absent == [st |-> "absent"]
Corrupt == [st |-> "corrupt"]
\* json.dump of a document into a file.
JsonDump(doc) == [st |-> "json", doc |-> doc]

Exists(file) == file.st # "absent"
Parses(file) == file.st = "json"

\* dict.get(key, default)
DictGet(d, key, default) == IF key \in DOMAIN d THEN d[key] ELSE default

\* dict.update: the keys of e override those of d.
DictUpdate(d, e) ==
    [k \in DOMAIN d \cup DOMAIN e |-> IF k \in DOMAIN e THEN e[k] ELSE d[k]]

VARIABLES
    store,      \* the storage root directory exists
    dirs,       \* the ids whose record directory exists
    meta,       \* id -> meta.json of the record
    schema,     \* id -> schema.json of the record
    prompts,    \* id -> prompts.json of the record
    index,      \* index.json
    clock,      \* the last instant datetime.utcnow() returned
    last,       \* the last call: operation, arguments and result
    deleted,    \* ids deleted with result True and not created again since
    calls,      \* calls made
    faults,     \* outside modifications made
    run         \* process -> the call it is in the middle of, step by step

vars == <<store, dirs, meta, schema, prompts, index, clock, last, deleted,
          calls, faults, run>>

\* ------------------------------------------------------------------ index

\* The entries _load_index returns for the index file f.
LoadIndexOf(f) == IF Parses(f) THEN f.doc ELSE <<>>

_load_index == LoadIndexOf(index)

\* ------------------------------------------------------------------ reads

\* Mutant: the three files are read under one try: the first that fails to
\* parse leaves the later ones at their defaults.
GetKB_OneTry(d, m, s, p, kb_id) ==
    IF kb_id \notin d THEN None
    ELSE LET r0 == [id |-> kb_id]
             okm == ~(m[kb_id].st = "corrupt")
             oks == okm /\ ~(s[kb_id].st = "corrupt")
             r1 == IF m[kb_id].st = "json" THEN DictUpdate(r0, m[kb_id].doc)
                   ELSE r0
             sc == IF okm /\ s[kb_id].st = "json" THEN s[kb_id].doc
                   ELSE _default_schema
             pr == IF oks /\ p[kb_id].st = "json" THEN p[kb_id].doc
                   ELSE _default_prompts
         IN  DictUpdate(r1, [schema |-> sc, prompts |-> pr])

\* get_knowledge_base on the persisted state (d, m, s, p).
GetKB(d, m, s, p, kb_id) ==
    IF kb_id \notin d THEN None
    ELSE LET r0 == [id |-> kb_id]
             r1 == IF Parses(m[kb_id]) THEN DictUpdate(r0, m[kb_id].doc)
                   ELSE r0
             sc == IF Parses(s[kb_id]) THEN s[kb_id].doc ELSE _default_schema
             pr == IF Parses(p[kb_id]) THEN p[kb_id].doc ELSE _default_prompts
         IN  DictUpdate(r1, [schema |-> sc, prompts |-> pr])

get_knowledge_base(kb_id) == GetKB(dirs, meta, schema, prompts, kb_id)

\* Mutant: the metadata is merged over the index entry, a field the
\* metadata lacks taken from the entry.
Summary_Merged(m, entry) ==
    LET kb_id == entry.id
        src == IF m[kb_id].st = "json" THEN DictUpdate(entry, m[kb_id].doc)
               ELSE entry
    IN  [id |-> kb_id,
         name |-> src.name,
         dataset_name |-> src.dataset_name,
         created_at |-> src.created_at,
         updated_at |-> src.updated_at]

\* The summary list_knowledge_bases builds for one index entry.
Summary(m, entry) ==
    LET kb_id == entry.id
        src == IF Exists(m[kb_id]) /\ Parses(m[kb_id]) THEN m[kb_id].doc
               ELSE entry
    IN  [id |-> kb_id,
         name |-> DictGet(src, "name", kb_id),
         dataset_name |-> DictGet(src, "dataset_name", ""),
         created_at |-> DictGet(src, "created_at", <<>>),
         updated_at |-> DictGet(src, "updated_at", <<>>)]

\* A variant that leaves out the entries whose record has no meta.json.
ListOf_SkipMissing(m, f) ==
    LET Has(e) == Exists(m[e.id])
        idx == SelectSeq(LoadIndexOf(f), Has)
    IN  [i \in 1..Len(idx) |-> Summary(m, idx[i])]

\* list_knowledge_bases on the persisted state: one summary per entry.
ListOf(m, f) ==
    LET idx == LoadIndexOf(f)
    IN  [i \in 1..Len(idx) |-> Summary(m, idx[i])]

list_knowledge_bases == ListOf(meta, index)

\* get_schema_path_for_kb: the path when schema.json exists, else None.
SchemaPath(kb_id) == <<"kb_store", kb_id, "schema.json">>

get_schema_path_for_kb(kb_id) ==
    IF kb_id \in dirs /\ Exists(schema[kb_id]) THEN SchemaPath(kb_id) ELSE None

\* Mutant: the schema file itself is required, as for the path.
get_schema_dict_for_kb_Strict(kb_id) ==
    IF kb_id \in dirs /\ schema[kb_id].st = "json" THEN schema[kb_id].doc
    ELSE None

get_schema_dict_for_kb(kb_id) ==
    LET kb == get_knowledge_base(kb_id)
    IN  IF kb = None THEN None ELSE kb.schema

get_prompts_for_kb(kb_id) ==
    LET kb == get_knowledge_base(kb_id)
    IN  IF kb = None THEN None ELSE kb.prompts

\* ------------------------------------------------------------------- init

\* A call as the model records it: the operation, its arguments, what it
\* returned, and whether it raised instead of returning.
Call(op, kb_id, name, dataset_name, sc, pr, ret, raised) ==
    [op |-> op, kb_id |-> kb_id, name |-> name, dataset_name |-> dataset_name,
     schema |-> sc, prompts |-> pr, ret |-> ret, raised |-> raised]

NoCall == Call("none", NoneStr, NoneStr, NoneStr, None, None, None, FALSE)

\* The processes that call the module on one storage root.
Procs == {"p1", "p2"}

\* A process that is in no call.
Idle == [op |-> "none", pc |-> "idle", kb_id |-> NoneStr, m |-> None,
         sc |-> None, pr |-> None, idx |-> <<>>]

\* The ids the state mentions, and the ids a call is tried with: ids are
\* opaque, so the ids the state does not mention are interchangeable and
\* the first of them stands for all.
IdOrder(kb_id) == CHOOSE i \in 1..MaxIds : IdDigits[i] = kb_id
KnownIds ==
    dirs \cup deleted \cup {_load_index[i].id : i \in 1..Len(_load_index)}
         \cup ({last.kb_id} \cap Ids)
         \cup ({run[p].kb_id : p \in Procs} \cap Ids)
FreshIds ==
    {k \in Ids \ KnownIds : \A j \in Ids \ KnownIds : IdOrder(k) <= IdOrder(j)}
CallIds == KnownIds \cup FreshIds

\* Steps left in the behaviour.
Budget == calls + faults < MaxCalls

Init ==
    /\ store = FALSE
    /\ dirs = {}
    /\ meta = [i \in Ids |-> Absent]
    /\ schema = [i \in Ids |-> Absent]
    /\ prompts = [i \in Ids |-> Absent]
    /\ index = Absent
    /\ clock = 0
    /\ last = NoCall
    /\ deleted = {}
    /\ calls = 0
    /\ faults = 0
    /\ run = [p \in Procs |-> Idle]

\* ----------------------------------------------------------------- create

\* Mutant: the name and the dataset name are written to each other's key.
NewMeta_Swapped(kb_id, name, dataset_name, now) ==
    [id |-> kb_id, name |-> dataset_name, dataset_name |-> name,
     created_at |-> now, updated_at |-> now]

\* The metadata create_knowledge_base writes.
NewMeta(kb_id, name, dataset_name, now) ==
    [id |-> kb_id, name |-> name, dataset_name |-> dataset_name,
     created_at |-> now, updated_at |-> now]

\* The index entry create_knowledge_base appends.
NewEntry(kb_id, name, dataset_name, now) ==
    [id |-> kb_id, name |-> name, dataset_name |-> dataset_name,
     created_at |-> now, updated_at |-> now]

\* schema if schema is not None else _default_schema()
SchemaData(sc) == IF sc # None THEN sc ELSE _default_schema

\* prompts if prompts is not None else _default_prompts()
PromptsData(pr) == IF pr # None THEN pr ELSE _default_prompts

\* create_knowledge_base, with kb_id the value of str(uuid.uuid4())[:8] and
\* t the instant datetime.utcnow() returns.
create_knowledge_base(kb_id, t, name, dataset_name, sc, pr) ==
    LET now == IsoFormat(t)
    IN  /\ Budget
        /\ calls' = calls + 1
        /\ clock' = t
        /\ store' = TRUE
        /\ dirs' = dirs \cup {kb_id}
        /\ meta' = [meta EXCEPT
               ![kb_id] = JsonDump(NewMeta(kb_id, name, dataset_name, now))]
        /\ schema' = [schema EXCEPT ![kb_id] = JsonDump(SchemaData(sc))]
        /\ prompts' = [prompts EXCEPT ![kb_id] = JsonDump(PromptsData(pr))]
        /\ index' = JsonDump(Append(_load_index,
                                    NewEntry(kb_id, name, dataset_name, now)))
        /\ deleted' = deleted \ {kb_id}
        /\ last' = Call("create", kb_id, name, dataset_name, sc, pr,
                        GetKB(dirs', meta', schema', prompts', kb_id), FALSE)
        /\ UNCHANGED <<faults, run>>

Create ==
    \E kb_id \in CallIds, t \in clock..MaxClock, name \in CreateNames,
       dataset_name \in CreateDatasets,
       sc \in SchemaArgs \cup {None}, pr \in PromptsArgs \cup {None} :
        create_knowledge_base(kb_id, t, name, dataset_name, sc, pr)

\* Mutant: the index is consulted for existence as well.
KbPathExists_OrIndexed(kb_id) ==
    \/ kb_id \in dirs
    \/ \E i \in 1..Len(LoadIndexOf(index)) : LoadIndexOf(index)[i].id = kb_id

\* kb_path.exists(), the guard of update_knowledge_base and
\* delete_knowledge_base.
KbPathExists(kb_id) == kb_id \in dirs

\* ----------------------------------------------------------------- update

\* Mutant: the metadata is rebuilt from the arguments, an omitted dataset
\* name written as the empty string.
UpdatedMeta_Rebuilt(m0, kb_id, name, dataset_name, now) ==
    DictUpdate(m0,
        [name |-> IF name # NoneStr THEN name ELSE DictGet(m0, "name", kb_id),
         dataset_name |-> IF dataset_name # NoneStr THEN dataset_name ELSE "",
         updated_at |-> now, id |-> kb_id])

\* The metadata update_knowledge_base writes over the loaded metadata m0.
UpdatedMeta(m0, kb_id, name, dataset_name, now) ==
    LET m1 == IF name # NoneStr THEN DictUpdate(m0, [name |-> name]) ELSE m0
        m2 == IF dataset_name # NoneStr
              THEN DictUpdate(m1, [dataset_name |-> dataset_name]) ELSE m1
    IN  DictUpdate(m2, [updated_at |-> now, id |-> kb_id])

\* The summary that replaces the index entry of an updated record.
FreshEntry(entry, kb_id, m, now) ==
    [id |-> kb_id,
     name |-> DictGet(m, "name", kb_id),
     dataset_name |-> DictGet(m, "dataset_name", ""),
     created_at |-> DictGet(m, "created_at",
                            DictGet(entry, "created_at", <<>>)),
     updated_at |-> now]

\* The positions of the entries of idx that carry kb_id.
Matches(idx, kb_id) == {i \in 1..Len(idx) : idx[i].id = kb_id}

Min(S) == CHOOSE x \in S : \A y \in S : x <= y

\* A variant that removes the matching entry and appends the fresh summary.
UpdatedIndex_MovedLast(idx, kb_id, m, now) ==
    IF Matches(idx, kb_id) = {} THEN idx
    ELSE LET i == Min(Matches(idx, kb_id))
         IN  Append([j \in 1..(Len(idx) - 1) |->
                        IF j < i THEN idx[j] ELSE idx[j + 1]],
                    FreshEntry(idx[i], kb_id, m, now))

\* The index with the first entry of kb_id replaced (for ... break).
UpdatedIndex(idx, kb_id, m, now) ==
    IF Matches(idx, kb_id) = {} THEN idx
    ELSE LET i == Min(Matches(idx, kb_id))
         IN  [idx EXCEPT ![i] = FreshEntry(idx[i], kb_id, m, now)]

\* A variant that updates the keys of the stored document and keeps the rest.
UpdatedFile_Merged(file, doc) ==
    IF doc = None THEN file
    ELSE IF Parses(file) THEN JsonDump(DictUpdate(file.doc, doc))
    ELSE JsonDump(doc)

\* if schema is not None: json.dump(schema, f) into a file opened with "w";
\* the same for prompts.
UpdatedFile(file, doc) ==
    IF doc = None THEN file ELSE JsonDump(doc)

update_knowledge_base(kb_id, t, name, dataset_name, sc, pr) ==
    /\ Budget
    /\ calls' = calls + 1
    /\ UNCHANGED <<store, dirs, deleted, faults, run>>
    /\ IF ~KbPathExists(kb_id)
       THEN \* return None
            /\ t = clock
            /\ last' = Call("update", kb_id, name, dataset_name, sc, pr,
                            None, FALSE)
            /\ UNCHANGED <<meta, schema, prompts, index, clock>>
       ELSE /\ clock' = t
            /\ IF Exists(meta[kb_id]) /\ ~Parses(meta[kb_id])
               THEN \* json.load(f) raises: nothing has been written yet
                    /\ last' = Call("update", kb_id, name, dataset_name,
                                    sc, pr, None, TRUE)
                    /\ UNCHANGED <<meta, schema, prompts, index>>
               ELSE LET now == IsoFormat(t)
                        m0 == IF Exists(meta[kb_id]) THEN meta[kb_id].doc
                              ELSE <<>>
                        m == UpdatedMeta(m0, kb_id, name, dataset_name, now)
                    IN  /\ meta' = [meta EXCEPT ![kb_id] = JsonDump(m)]
                        /\ schema' = [schema EXCEPT
                                ![kb_id] = UpdatedFile(schema[kb_id], sc)]
                        /\ prompts' = [prompts EXCEPT
                                ![kb_id] = UpdatedFile(prompts[kb_id], pr)]
                        /\ index' = JsonDump(
                               UpdatedIndex(_load_index, kb_id, m, now))
                        /\ last' = Call("update", kb_id, name, dataset_name,
                               sc, pr,
                               GetKB(dirs', meta', schema', prompts', kb_id),
                               FALSE)

Update ==
    \E kb_id \in CallIds, t \in clock..MaxClock,
       name \in UpdateNames \cup {NoneStr},
       dataset_name \in UpdateDatasets \cup {NoneStr},
       sc \in SchemaArgs \cup {None}, pr \in PromptsArgs \cup {None} :
        update_knowledge_base(kb_id, t, name, dataset_name, sc, pr)

\* ----------------------------------------------------------------- delete

\* Mutant: only the first entry of kb_id is removed.
PrunedIndex_First(idx, kb_id) ==
    LET hit == {i \in 1..Len(idx) : idx[i].id = kb_id}
    IN  IF hit = {} THEN idx
        ELSE LET i == CHOOSE j \in hit : \A k \in hit : j <= k
             IN  [j \in 1..(Len(idx) - 1) |->
                     IF j < i THEN idx[j] ELSE idx[j + 1]]

\* [e for e in index if e.get("id") != kb_id]
PrunedIndex(idx, kb_id) ==
    LET Keep(e) == e.id # kb_id
    IN  SelectSeq(idx, Keep)

delete_knowledge_base(kb_id) ==
    /\ Budget
    /\ calls' = calls + 1
    /\ UNCHANGED <<store, clock, faults, run>>
    /\ IF ~KbPathExists(kb_id)
       THEN /\ last' = Call("delete", kb_id, NoneStr, NoneStr, None, None,
                            FALSE, FALSE)
            /\ UNCHANGED <<dirs, meta, schema, prompts, index, deleted>>
       ELSE /\ dirs' = dirs \ {kb_id}
            /\ meta' = [meta EXCEPT ![kb_id] = Absent]
            /\ schema' = [schema EXCEPT ![kb_id] = Absent]
            /\ prompts' = [prompts EXCEPT ![kb_id] = Absent]
            /\ index' = JsonDump(PrunedIndex(_load_index, kb_id))
            /\ deleted' = deleted \cup {kb_id}
            /\ last' = Call("delete", kb_id, NoneStr, NoneStr, None, None,
                            TRUE, FALSE)

Delete == \E kb_id \in CallIds : delete_knowledge_base(kb_id)

\* ------------------------------------------------------------------- list

\* Mutant: the summaries built from the metadata are saved as the index.
List_Repairing ==
    /\ last.op # "list"
    /\ store' = TRUE
    /\ index' = JsonDump(list_knowledge_bases)
    /\ last' = Call("list", NoneStr, NoneStr, NoneStr, None, None,
                    list_knowledge_bases, FALSE)
    /\ UNCHANGED <<dirs, meta, schema, prompts, clock, deleted,
                   calls, faults, run>>

\* list_knowledge_bases as a call: _load_index creates the storage root.
List ==
    /\ last.op # "list"
    /\ store' = TRUE
    /\ last' = Call("list", NoneStr, NoneStr, NoneStr, None, None,
                    list_knowledge_bases, FALSE)
    /\ UNCHANGED <<dirs, meta, schema, prompts, index, clock, deleted,
                   calls, faults, run>>

Next == Create \/ Update \/ Delete \/ List

Spec == Init /\ [][Next]_vars

\* ----------------------------------------------------- outside modification

\* What the files can become without a call of this module: the cases the
\* readers of the module guard against.
Fault == Call("fault", NoneStr, NoneStr, NoneStr, None, None, None, FALSE)

FaultStep ==
    /\ Budget
    /\ faults < MaxFaults
    /\ faults' = faults + 1
    /\ last' = Fault
    /\ UNCHANGED <<store, clock, deleted, calls, run>>

\* A record file is overwritten with text that is not JSON.
CorruptMeta ==
    \E kb_id \in dirs :
        /\ FaultStep
        /\ meta' = [meta EXCEPT ![kb_id] = Corrupt]
        /\ UNCHANGED <<dirs, schema, prompts, index>>

CorruptSchema ==
    \E kb_id \in dirs :
        /\ FaultStep
        /\ schema' = [schema EXCEPT ![kb_id] = Corrupt]
        /\ UNCHANGED <<dirs, meta, prompts, index>>

CorruptPrompts ==
    \E kb_id \in dirs :
        /\ FaultStep
        /\ prompts' = [prompts EXCEPT ![kb_id] = Corrupt]
        /\ UNCHANGED <<dirs, meta, schema, index>>

\* A record file is removed.
RemoveMeta ==
    \E kb_id \in dirs :
        /\ FaultStep
        /\ Exists(meta[kb_id])
        /\ meta' = [meta EXCEPT ![kb_id] = Absent]
        /\ UNCHANGED <<dirs, schema, prompts, index>>

RemoveSchema ==
    \E kb_id \in dirs :
        /\ FaultStep
        /\ Exists(schema[kb_id])
        /\ schema' = [schema EXCEPT ![kb_id] = Absent]
        /\ UNCHANGED <<dirs, meta, prompts, index>>

RemovePrompts ==
    \E kb_id \in dirs :
        /\ FaultStep
        /\ Exists(prompts[kb_id])
        /\ prompts' = [prompts EXCEPT ![kb_id] = Absent]
        /\ UNCHANGED <<dirs, meta, schema, index>>

\* index.json is overwritten with text that is not a JSON list.
CorruptIndex ==
    /\ FaultStep
    /\ Exists(index)
    /\ index' = Corrupt
    /\ UNCHANGED <<dirs, meta, schema, prompts>>

\* One entry is lost from index.json: its record directory stays.
DropIndexEntry ==
    \E i \in 1..Len(_load_index) :
        /\ FaultStep
        /\ index' = JsonDump([j \in 1..(Len(_load_index) - 1) |->
                               IF j < i THEN _load_index[j]
                               ELSE _load_index[j + 1]])
        /\ UNCHANGED <<dirs, meta, schema, prompts>>

\* A record directory is removed by hand: its index entry stays.
RemoveDir ==
    \E kb_id \in dirs :
        /\ FaultStep
        /\ dirs' = dirs \ {kb_id}
        /\ meta' = [meta EXCEPT ![kb_id] = Absent]
        /\ schema' = [schema EXCEPT ![kb_id] = Absent]
        /\ prompts' = [prompts EXCEPT ![kb_id] = Absent]
        /\ UNCHANGED index

\* A create_knowledge_base of another run was interrupted while it wrote
\* meta.json: the record directory exists, meta.json is not JSON, and the
\* index has no entry of the record.
TornCreate ==
    \E kb_id \in FreshIds :
        /\ FaultStep
        /\ dirs' = dirs \cup {kb_id}
        /\ meta' = [meta EXCEPT ![kb_id] = Corrupt]
        /\ UNCHANGED <<schema, prompts, index>>

NextFault ==
    \/ Next
    \/ CorruptMeta \/ CorruptSchema \/ CorruptPrompts
    \/ RemoveMeta \/ RemoveSchema \/ RemovePrompts
    \/ CorruptIndex \/ DropIndexEntry \/ RemoveDir \/ TornCreate

SpecFault == Init /\ [][NextFault]_vars

\* ------------------------------------------------------- calls step by step

\* The calls taken one file-system step at a time, so that the steps of two
\* processes interleave.  A step that only reads is taken together with the
\* step it leads to: the existence check of update_knowledge_base with the
\* read of meta.json, and the read that builds the returned record with the
\* save of the index before it.  The arguments of a call made in steps are
\* kept in the documents the process holds, not in the call record.

\* Process p has made no call yet: each process makes one call.
Resting(p) == run[p].pc = "idle"

\* The calls of update_knowledge_base made in steps: one that renames the
\* record and one that replaces its two documents.
StepUpdates ==
    {[name |-> n, dataset_name |-> NoneStr, sc |-> None, pr |-> None] :
        n \in UpdateNames}
    \cup {[name |-> NoneStr, dataset_name |-> NoneStr, sc |-> sc, pr |-> pr] :
        sc \in SchemaArgs, pr \in PromptsArgs}

\* Process p takes in its call with r, and nothing returns.
Goes(p, r) ==
    /\ run' = [run EXCEPT ![p] = r]
    /\ UNCHANGED last

\* The call of process p returns ret, or raises.
Returns(p, op, kb_id, ret, raised) ==
    /\ run' = [run EXCEPT ![p] =
                  [Idle EXCEPT !.op = op, !.kb_id = kb_id,
                               !.pc = IF raised THEN "raised" ELSE "done"]]
    /\ last' = Call(op, kb_id, NoneStr, NoneStr, None, None, ret, raised)

\* The step after meta.json is written: the files an update was given no
\* document for are skipped.
AfterMeta(r) ==
    IF r.sc # None THEN "schema" ELSE IF r.pr # None THEN "prompts" ELSE "load"

AfterSchema(r) == IF r.pr # None THEN "prompts" ELSE "load"

\* create_knowledge_base up to the timestamp: the id is drawn, the record
\* directory is made (exist_ok) and the clock is read.
StartCreate(p) ==
    \E kb_id \in CallIds, t \in clock..MaxClock, name \in CreateNames,
       dataset_name \in CreateDatasets, sc \in {None}, pr \in {None} :
        /\ Resting(p)
        /\ calls' = calls + 1
        /\ clock' = t
        /\ store' = TRUE
        /\ dirs' = dirs \cup {kb_id}
        /\ deleted' = deleted \ {kb_id}
        /\ Goes(p, [op |-> "create", pc |-> "meta", kb_id |-> kb_id,
                    m |-> NewMeta(kb_id, name, dataset_name, IsoFormat(t)),
                    sc |-> SchemaData(sc), pr |-> PromptsData(pr),
                    idx |-> <<>>])
        /\ UNCHANGED <<meta, schema, prompts, index, faults>>

\* update_knowledge_base up to the new metadata: the directory is looked
\* for, the clock is read, meta.json is loaded and its fields are set.
StartUpdate(p) ==
    \E kb_id \in CallIds, t \in clock..MaxClock, u \in StepUpdates :
        /\ Resting(p)
        /\ calls' = calls + 1
        /\ UNCHANGED <<store, dirs, meta, schema, prompts, index, deleted,
                       faults>>
        /\ IF ~KbPathExists(kb_id)
           THEN /\ t = clock
                /\ UNCHANGED clock
                /\ Returns(p, "update", kb_id, None, FALSE)
           ELSE /\ clock' = t
                /\ IF Exists(meta[kb_id]) /\ ~Parses(meta[kb_id])
                   THEN Returns(p, "update", kb_id, None, TRUE)
                   ELSE LET m0 == IF Exists(meta[kb_id]) THEN meta[kb_id].doc
                                  ELSE <<>>
                        IN  Goes(p, [op |-> "update", pc |-> "meta",
                                     kb_id |-> kb_id,
                                     m |-> UpdatedMeta(m0, kb_id, u.name,
                                               u.dataset_name, IsoFormat(t)),
                                     sc |-> u.sc, pr |-> u.pr,
                                     idx |-> <<>>])

\* delete_knowledge_base up to rmtree: the directory is looked for.
StartDelete(p) ==
    \E kb_id \in CallIds :
        /\ Resting(p)
        /\ calls' = calls + 1
        /\ UNCHANGED <<store, dirs, meta, schema, prompts, index, clock,
                       deleted, faults>>
        /\ IF ~KbPathExists(kb_id)
           THEN Returns(p, "delete", kb_id, FALSE, FALSE)
           ELSE Goes(p, [Idle EXCEPT !.op = "delete", !.pc = "rmtree",
                                    !.kb_id = kb_id])

\* open(path, "w") finds the record directory of process p removed: the
\* call raises and nothing is written.
WriteRaises(p) ==
    /\ Returns(p, run[p].op, run[p].kb_id, None, TRUE)
    /\ UNCHANGED <<meta, schema, prompts>>

\* json.dump(meta, f) into meta.json.
WriteMeta(p) ==
    /\ run[p].pc = "meta"
    /\ UNCHANGED <<store, dirs, index, clock, deleted, calls, faults>>
    /\ IF ~KbPathExists(run[p].kb_id)
       THEN WriteRaises(p)
       ELSE /\ meta' = [meta EXCEPT ![run[p].kb_id] = JsonDump(run[p].m)]
            /\ Goes(p, [run[p] EXCEPT !.pc =
                   IF run[p].op = "create" THEN "schema"
                   ELSE AfterMeta(run[p])])
            /\ UNCHANGED <<schema, prompts>>

\* json.dump into schema.json.
WriteSchema(p) ==
    /\ run[p].pc = "schema"
    /\ UNCHANGED <<store, dirs, index, clock, deleted, calls, faults>>
    /\ IF ~KbPathExists(run[p].kb_id)
       THEN WriteRaises(p)
       ELSE /\ schema' = [schema EXCEPT
                              ![run[p].kb_id] = JsonDump(run[p].sc)]
            /\ Goes(p, [run[p] EXCEPT !.pc =
                   IF run[p].op = "create" THEN "prompts"
                   ELSE AfterSchema(run[p])])
            /\ UNCHANGED <<meta, prompts>>

\* json.dump into prompts.json.
WritePrompts(p) ==
    /\ run[p].pc = "prompts"
    /\ UNCHANGED <<store, dirs, index, clock, deleted, calls, faults>>
    /\ IF ~KbPathExists(run[p].kb_id)
       THEN WriteRaises(p)
       ELSE /\ prompts' = [prompts EXCEPT
                               ![run[p].kb_id] = JsonDump(run[p].pr)]
            /\ Goes(p, [run[p] EXCEPT !.pc = "load"])
            /\ UNCHANGED <<meta, schema>>

\* shutil.rmtree(kb_path): it raises when the directory is gone already.
RemoveTree(p) ==
    /\ run[p].pc = "rmtree"
    /\ UNCHANGED <<store, index, clock, calls, faults>>
    /\ IF ~KbPathExists(run[p].kb_id)
       THEN /\ Returns(p, "delete", run[p].kb_id, None, TRUE)
            /\ UNCHANGED <<dirs, meta, schema, prompts, deleted>>
       ELSE /\ dirs' = dirs \ {run[p].kb_id}
            /\ meta' = [meta EXCEPT ![run[p].kb_id] = Absent]
            /\ schema' = [schema EXCEPT ![run[p].kb_id] = Absent]
            /\ prompts' = [prompts EXCEPT ![run[p].kb_id] = Absent]
            /\ deleted' = deleted \cup {run[p].kb_id}
            /\ Goes(p, [run[p] EXCEPT !.pc = "load"])

\* index = _load_index()
LoadIndex(p) ==
    /\ run[p].pc = "load"
    /\ Goes(p, [run[p] EXCEPT !.pc = "save", !.idx = _load_index])
    /\ UNCHANGED <<store, dirs, meta, schema, prompts, index, clock, deleted,
                   calls, faults>>

\* A variant that reads the index again when it saves.
SavedIndex_Reloaded(r) ==
    IF r.op = "create"
    THEN Append(_load_index, NewEntry(r.kb_id, r.m.name, r.m.dataset_name,
                                      r.m.created_at))
    ELSE IF r.op = "update"
    THEN UpdatedIndex(_load_index, r.kb_id, r.m, r.m.updated_at)
    ELSE PrunedIndex(_load_index, r.kb_id)

\* The index process p saves: the index it loaded with its own change.
SavedIndex(r) ==
    IF r.op = "create"
    THEN Append(r.idx, NewEntry(r.kb_id, r.m.name, r.m.dataset_name,
                                r.m.created_at))
    ELSE IF r.op = "update"
    THEN UpdatedIndex(r.idx, r.kb_id, r.m, r.m.updated_at)
    ELSE PrunedIndex(r.idx, r.kb_id)

\* _save_index(index), and the return of the call.
SaveIndex(p) ==
    /\ run[p].pc = "save"
    /\ index' = JsonDump(SavedIndex(run[p]))
    /\ Returns(p, run[p].op, run[p].kb_id,
               IF run[p].op = "delete" THEN TRUE
               ELSE GetKB(dirs, meta, schema, prompts, run[p].kb_id), FALSE)
    /\ UNCHANGED <<store, dirs, meta, schema, prompts, clock, deleted,
                   calls, faults>>

NextConc ==
    \E p \in Procs :
        \/ StartCreate(p) \/ StartUpdate(p) \/ StartDelete(p)
        \/ WriteMeta(p) \/ WriteSchema(p) \/ WritePrompts(p)
        \/ RemoveTree(p) \/ LoadIndex(p) \/ SaveIndex(p)

\* The store the processes start on: empty, or holding the one record
\* that create_knowledge_base made at instant 0 with default documents.
SeedId == IdDigits[1]

SeedName == CHOOSE n \in CreateNames : TRUE

SeedDataset == CHOOSE d \in CreateDatasets : TRUE

InitConc ==
    \E seeded \in BOOLEAN :
        LET made == IF seeded THEN {SeedId} ELSE {}
            File(i, doc) == IF i \in made THEN JsonDump(doc) ELSE Absent
        IN  /\ store = seeded
            /\ dirs = made
            /\ meta = [i \in Ids |-> File(i,
                    NewMeta(i, SeedName, SeedDataset, IsoFormat(0)))]
            /\ schema = [i \in Ids |-> File(i, SchemaData(None))]
            /\ prompts = [i \in Ids |-> File(i, PromptsData(None))]
            /\ index = IF seeded
                       THEN JsonDump(<<NewEntry(SeedId, SeedName, SeedDataset,
                                               IsoFormat(0))>>)
                       ELSE Absent
            /\ clock = 0
            /\ last = NoCall
            /\ deleted = {}
            /\ calls = 0
            /\ faults = 0
            /\ run = [p \in Procs |-> Idle]

SpecConc == InitConc /\ [][NextConc]_vars

\* The process is killed between two steps of its call: the steps taken
\* stay on disk and the rest of the call never happens.
Crash(p) ==
    /\ run[p].pc \notin {"idle", "done", "raised", "crashed"}
    /\ faults < MaxFaults
    /\ faults' = faults + 1
    /\ run' = [run EXCEPT ![p] =
                  [Idle EXCEPT !.op = run[p].op, !.kb_id = run[p].kb_id,
                               !.pc = "crashed"]]
    /\ last' = Fault
    /\ UNCHANGED <<store, dirs, meta, schema, prompts, index, clock, deleted,
                   calls>>

NextCrash == NextConc \/ \E p \in Procs : Crash(p)

SpecCrash == InitConc /\ [][NextCrash]_vars

\* ======================================================================
\* Properties
\* ======================================================================

\* The step just taken is a call of operation op.
CallStep(op) == last'.op = op /\ calls' = calls + 1

\* The index entries that carry kb_id.
EntriesOf(idx, kb_id) == {i \in 1..Len(idx) : idx[i].id = kb_id}

\* ------------------------------------------------------------------- C1
\* C1: right after create_knowledge_base, get_knowledge_base of the
\* returned id is the value create returned, and its name, dataset_name,
\* schema and prompts are the arguments of the call, the default schema
\* and default prompts standing in for an omitted argument.
C1_CreateThenGet ==
    last.op = "create" =>
        LET r == get_knowledge_base(last.ret.id)
        IN  /\ r # None
            /\ r = last.ret
            /\ r.id = last.kb_id
            /\ r.name = last.name
            /\ r.dataset_name = last.dataset_name
            /\ r.schema = (IF last.schema = None THEN _default_schema
                           ELSE last.schema)
            /\ r.prompts = (IF last.prompts = None THEN _default_prompts
                            ELSE last.prompts)

\* The second call of a behaviour was a create with the schema omitted and
\* the prompts supplied.
C1_Witness ==
    /\ last.op = "create"
    /\ last.schema = None
    /\ last.prompts # None
    /\ calls = 2

\* ------------------------------------------------------------------- C2
\* C2: every existing record has created_at <= updated_at (the stored
\* values, compared as the strings they are).
C2_CreatedLeqUpdated ==
    \A kb_id \in dirs :
        LET r == get_knowledge_base(kb_id)
        IN  {"created_at", "updated_at"} \subseteq DOMAIN r =>
                StrLeq(r.created_at, r.updated_at)

\* C2, second half: update_knowledge_base leaves created_at as it was, in
\* meta.json and in every index entry of the record.  (It holds of
\* meta.json; of the index it fails once two creates drew the same id, see
\* C10: the update rewrites the older entry with the newer created_at.)
C2_CreatedAtFixed ==
    [][CallStep("update") =>
        LET kb_id == last'.kb_id
            before == get_knowledge_base(kb_id)
            after == GetKB(dirs', meta', schema', prompts', kb_id)
            idx == LoadIndexOf(index)
            idx2 == LoadIndexOf(index')
        IN  /\ (before # None /\ "created_at" \in DOMAIN before) =>
                    /\ "created_at" \in DOMAIN after
                    /\ after.created_at = before.created_at
            /\ \A i \in EntriesOf(idx, kb_id) :
                    /\ i \in EntriesOf(idx2, kb_id)
                    /\ idx2[i].created_at = idx[i].created_at]_vars

\* ------------------------------------------------------------------- C3
\* C3: update_knowledge_base(id, name=X) with no other field supplied
\* leaves the record's dataset_name, schema and prompts, as
\* get_knowledge_base returns them, as they were before the call, and
\* leaves every other record as it was.
NameOnly(c) ==
    /\ c.name # NoneStr
    /\ c.dataset_name = NoneStr
    /\ c.schema = None
    /\ c.prompts = None

C3_UpdateNameOnly ==
    [][(CallStep("update") /\ NameOnly(last')) =>
        LET kb_id == last'.kb_id
            before == get_knowledge_base(kb_id)
            after == GetKB(dirs', meta', schema', prompts', kb_id)
        IN  /\ (before = None) <=> (after = None)
            /\ before # None =>
                   /\ after.schema = before.schema
                   /\ after.prompts = before.prompts
                   /\ ("dataset_name" \in DOMAIN after)
                        <=> ("dataset_name" \in DOMAIN before)
                   /\ "dataset_name" \in DOMAIN before =>
                        after.dataset_name = before.dataset_name
            /\ \A other \in Ids \ {kb_id} :
                   GetKB(dirs', meta', schema', prompts', other)
                     = get_knowledge_base(other)]_vars

\* An update of the name alone has renamed a record whose schema and
\* prompts were supplied at creation.
C3_Witness ==
    /\ last.op = "update"
    /\ NameOnly(last)
    /\ last.ret # None
    /\ last.ret.name \in UpdateNames
    /\ last.ret.dataset_name \in CreateDatasets
    /\ last.ret.schema \in SchemaArgs
    /\ last.ret.prompts \in PromptsArgs

\* ------------------------------------------------------------------- C4
\* C4: once delete_knowledge_base(id) has returned True, and until a
\* create assigns that id again, get_knowledge_base(id) and
\* get_schema_path_for_kb(id) return None and list_knowledge_bases holds
\* no summary with that id.
C4_DeletedStaysGone ==
    \A kb_id \in deleted :
        /\ get_knowledge_base(kb_id) = None
        /\ get_schema_path_for_kb(kb_id) = None
        /\ \A i \in 1..Len(list_knowledge_bases) :
               list_knowledge_bases[i].id # kb_id

\* A record was deleted and another call has been made since, with a
\* record still in the store.
C4_Witness ==
    /\ deleted # {}
    /\ dirs # {}
    /\ last.op \in {"create", "update"}

\* ------------------------------------------------------------------- C5
\* C5: no public operation propagates the parse failure of a persisted
\* file to its caller: every call returns.
C5_NeverRaises == ~last.raised

\* ------------------------------------------------------------------- C6
\* C6: for a record whose directory exists, get_knowledge_base defaults
\* each file on its own: schema is the stored document when schema.json
\* parses and the default schema when it is absent or unparseable, whatever
\* the state of the other two files; likewise prompts; and an unparseable
\* meta.json leaves only id, schema and prompts in the record.
C6_IndependentDefaults ==
    \A kb_id \in dirs :
        LET r == get_knowledge_base(kb_id)
        IN  /\ r # None
            /\ r.schema = (IF schema[kb_id].st = "json"
                           THEN schema[kb_id].doc ELSE _default_schema)
            /\ r.prompts = (IF prompts[kb_id].st = "json"
                            THEN prompts[kb_id].doc ELSE _default_prompts)
            /\ meta[kb_id].st = "corrupt" =>
                   DOMAIN r = {"id", "schema", "prompts"}
            /\ meta[kb_id].st = "json" =>
                   \A k \in DOMAIN meta[kb_id].doc : r[k] = meta[kb_id].doc[k]

\* A record whose schema.json is unparseable or absent and whose
\* prompts.json holds a supplied document.
C6_Witness ==
    \E kb_id \in dirs :
        /\ schema[kb_id].st # "json"
        /\ prompts[kb_id].st = "json"
        /\ prompts[kb_id].doc \in PromptsArgs

\* ------------------------------------------------------------------- C7
\* C7: whatever the index holds, the record's directory alone decides:
\* update_knowledge_base returns a record exactly when the directory
\* exists, delete_knowledge_base returns True exactly when it existed, and
\* get_knowledge_base returns a record exactly when it exists.
C7_DirectoryDecides ==
    [][/\ CallStep("update") =>
             /\ ~last'.raised
             /\ (last'.ret # None) <=> (last'.kb_id \in dirs)
       /\ CallStep("delete") =>
             /\ ~last'.raised
             /\ last'.ret <=> (last'.kb_id \in dirs)
       /\ \A kb_id \in Ids :
             (GetKB(dirs', meta', schema', prompts', kb_id) # None)
               <=> (kb_id \in dirs')]_vars

C9_AbsentIsNoOp ==
    [][((CallStep("update") \/ CallStep("delete")) /\ last'.kb_id \notin dirs)
        => /\ ~last'.raised
           /\ last'.op = "update" => last'.ret = None
           /\ last'.op = "delete" => last'.ret = FALSE
           /\ UNCHANGED <<store, dirs, meta, schema, prompts, index>>]_vars

\* An update was called with an id whose directory is absent while the
\* index holds a stale entry of that id.
C9_Witness ==
    /\ last.op = "update"
    /\ last.kb_id \notin dirs
    /\ EntriesOf(_load_index, last.kb_id) # {}

\* ------------------------------------------------------------------ C10
\* C10: every create_knowledge_base assigns an id that no existing record
\* has, so it overwrites no existing record's files and adds no second
\* index entry of an id the index already holds.
C10_IdsUnique ==
    [][CallStep("create") =>
        /\ last'.kb_id \notin dirs
        /\ \A other \in dirs :
               /\ meta'[other] = meta[other]
               /\ schema'[other] = schema[other]
               /\ prompts'[other] = prompts[other]
        /\ EntriesOf(_load_index, last'.kb_id) = {}]_vars

\* ------------------------------------------------------------------ C11
\* The index holds exactly one entry for each existing record directory and
\* none for any other id, and each entry's name, dataset_name, created_at
\* and updated_at are those of the record's meta.json.
InSync(d, m, f) ==
    LET idx == LoadIndexOf(f)
    IN  /\ \A kb_id \in d : Cardinality(EntriesOf(idx, kb_id)) = 1
        /\ \A i \in 1..Len(idx) :
               /\ idx[i].id \in d
               /\ m[idx[i].id].st = "json"
               /\ \A k \in {"name", "dataset_name", "created_at",
                             "updated_at"} :
                      /\ k \in DOMAIN m[idx[i].id].doc
                      /\ idx[i][k] = m[idx[i].id].doc[k]

\* C11: from the empty store, after any sequence of create, update and
\* delete calls with no outside modification, the index is in sync with
\* the records.
C11_IndexInSync == InSync(dirs, meta, index)

\* C11, apart from C10: every call other than a create that draws the id
\* of an existing record keeps an index that is in sync in sync.
C11_SyncKeptWithoutCollision ==
    [][(InSync(dirs, meta, index)
          /\ ~(CallStep("create") /\ last'.kb_id \in dirs))
        => InSync(dirs', meta', index')]_vars

\* ------------------------------------------------------------------ C12
SummaryFields == {"name", "dataset_name", "created_at", "updated_at"}

\* The value list_knowledge_bases gives a field the metadata lacks.
FieldDefault(kb_id, k) ==
    IF k = "name" THEN kb_id
    ELSE IF k = "dataset_name" THEN ""
    ELSE <<>>

\* C12 as claimed: list_knowledge_bases returns one summary per index
\* entry; with a meta.json that parses, each field is the metadata's value
\* if the metadata has the field and otherwise the index entry's value;
\* with meta.json absent or unparseable, the index entry's values.
C12_MergedOverEntry ==
    /\ Len(list_knowledge_bases) = Len(_load_index)
    /\ \A i \in 1..Len(_load_index) :
          LET e == _load_index[i]
              f == meta[e.id]
              r == list_knowledge_bases[i]
          IN  /\ r.id = e.id
              /\ \A k \in SummaryFields :
                    r[k] = (IF f.st = "json" /\ k \in DOMAIN f.doc
                            THEN f.doc[k] ELSE e[k])

\* C12 amended: with a meta.json that parses, each field is the metadata's
\* value if the metadata has the field and otherwise a fixed default (the
\* record id for name, the empty string for the other three), the index
\* entry's value being ignored; with meta.json absent or unparseable, the
\* index entry's values.
C12_ListSummaries ==
    /\ Len(list_knowledge_bases) = Len(_load_index)
    /\ \A i \in 1..Len(_load_index) :
          LET e == _load_index[i]
              f == meta[e.id]
              r == list_knowledge_bases[i]
          IN  /\ r.id = e.id
              /\ \A k \in SummaryFields :
                    r[k] = (IF f.st = "json"
                            THEN (IF k \in DOMAIN f.doc THEN f.doc[k]
                                  ELSE FieldDefault(e.id, k))
                            ELSE e[k])

\* An index entry with a created_at whose record's meta.json parses and
\* has no created_at.
C12_Witness ==
    \E i \in 1..Len(_load_index) :
        /\ meta[_load_index[i].id].st = "json"
        /\ "created_at" \notin DOMAIN meta[_load_index[i].id].doc
        /\ _load_index[i].created_at # <<>>

\* ------------------------------------------------------------------ C13
\* The index entry e says what the record's parseable meta.json says.
Agrees(m, e) == m[e.id].st = "json" => e = Summary(m, e)

\* The step just taken is a call of list_knowledge_bases.
ListStep == last'.op = "list" /\ last.op # "list"

\* C13 as claimed: once list_knowledge_bases has completed, every
\* persisted index entry agrees with its record's parseable meta.json.
C13_ListRepairsIndex ==
    [][ListStep =>
        \A i \in 1..Len(LoadIndexOf(index')) :
            Agrees(meta', LoadIndexOf(index')[i])]_vars

\* C13 amended: list_knowledge_bases writes nothing: index.json and the
\* record files are after the call what they were before, an index entry
\* that disagrees with its record's meta.json included; only the summaries
\* it returns agree with the parseable meta.json.
C13_ListWritesNothing ==
    [][ListStep =>
        /\ UNCHANGED <<dirs, meta, schema, prompts, index>>
        /\ Len(last'.ret) = Len(_load_index)
        /\ \A i \in 1..Len(_load_index) :
               /\ last'.ret[i].id = _load_index[i].id
               /\ Agrees(meta, last'.ret[i])]_vars

\* list_knowledge_bases has been called on a store one of whose index
\* entries disagrees with its record's parseable meta.json.
C13_Witness ==
    /\ last.op = "list"
    /\ \E i \in 1..Len(_load_index) : ~Agrees(meta, _load_index[i])

\* ------------------------------------------------------------------ C14
\* C14: update_knowledge_base on a record whose directory exists and which
\* has no entry in the index rewrites the record's meta.json and returns
\* the full record, and leaves the index entries as they were: the record
\* is still absent from list_knowledge_bases and no entry of another
\* record is altered.
C14_UnindexedUpdate ==
    [][(/\ CallStep("update")
        /\ last'.kb_id \in dirs
        /\ EntriesOf(_load_index, last'.kb_id) = {})
        => /\ ~last'.raised
           /\ last'.ret # None
           /\ last'.ret = GetKB(dirs', meta', schema', prompts', last'.kb_id)
           /\ meta'[last'.kb_id].st = "json"
           /\ meta'[last'.kb_id].doc.updated_at = IsoFormat(clock')
           /\ LoadIndexOf(index') = _load_index
           /\ \A i \in 1..Len(ListOf(meta', index')) :
                  ListOf(meta', index')[i].id # last'.kb_id]_vars

\* ------------------------------------------------------------------ C17
\* The summaries of l whose id is not kb_id, in the order of l.
Others(l, kb_id) ==
    LET Keep(e) == e.id # kb_id
    IN  SelectSeq(l, Keep)

\* The ids of the summaries of l, in the order of l.
IdsOf(l) == [i \in 1..Len(l) |-> l[i].id]

C18_ReplacesWholesale ==
    [][(CallStep("update") /\ last'.ret # None) =>
         LET kb_id == last'.kb_id
             got == GetKB(dirs', meta', schema', prompts', kb_id)
             was == get_knowledge_base(kb_id)
         IN  /\ got = last'.ret
             /\ IF last'.schema # None
                THEN /\ got.schema = last'.schema
                     /\ DOMAIN got.schema = DOMAIN last'.schema
                ELSE /\ got.schema = was.schema
                     /\ schema' = schema
             /\ IF last'.prompts # None
                THEN /\ got.prompts = last'.prompts
                     /\ DOMAIN got.prompts = DOMAIN last'.prompts
                ELSE /\ got.prompts = was.prompts
                     /\ prompts' = prompts]_vars

\* An update has supplied a schema that lacks keys of the stored schema and
\* no prompts: the record has the supplied schema and its earlier prompts.
C18_Witness ==
    /\ last.op = "update"
    /\ last.ret # None
    /\ last.schema # None
    /\ last.prompts = None
    /\ last.kb_id \in dirs
    /\ DOMAIN get_knowledge_base(last.kb_id).schema = {"Nodes"}
    /\ get_knowledge_base(last.kb_id).prompts = _default_prompts

\* ------------------------------------------------------------------ C15
\* Process p saves the index and its call returns.
SaveStep(p) == run[p].pc = "save" /\ run'[p].pc = "done"

\* C15: with two processes in create, update or delete on one storage
\* root, the load and save steps interleave and the last writer wins: the
\* index a process saves carries, for every other record, exactly the
\* entries the process loaded, whatever the index has become since.  So a
\* state is reached where both calls have returned and the index lacks the
\* entry of a record whose directory exists.
C15_LastWriterWins ==
    [][\A p \in Procs : SaveStep(p) =>
          Others(LoadIndexOf(index'), run[p].kb_id)
              = Others(run[p].idx, run[p].kb_id)]_vars

\* Both calls have returned without raising, on different records, and a
\* record whose directory exists has no entry in the index.
C15_Witness ==
    /\ \A p \in Procs : run[p].pc = "done"
    /\ \A p, q \in Procs : p # q => run[p].kb_id # run[q].kb_id
    /\ \E kb_id \in dirs : EntriesOf(_load_index, kb_id) = {}

\* ------------------------------------------------------------------ C16
\* C16: after a create, update or delete has been interrupted between two
\* of its file-system steps, list_knowledge_bases returns one summary per
\* index entry, and get_knowledge_base on any id returns not-found exactly
\* when the record directory is absent and otherwise a record that holds a
\* schema and a prompts value, the default where the file is not there.
C16_ReadsAfterCrash ==
    (\E p \in Procs : run[p].pc = "crashed") =>
        /\ Len(list_knowledge_bases) = Len(_load_index)
        /\ \A i \in 1..Len(_load_index) :
              list_knowledge_bases[i].id = _load_index[i].id
        /\ \A kb_id \in Ids :
              LET rec == get_knowledge_base(kb_id)
              IN  /\ (rec = None) <=> (kb_id \notin dirs)
                  /\ kb_id \in dirs =>
                        /\ {"schema", "prompts"} \subseteq DOMAIN rec
                        /\ ~Exists(schema[kb_id]) =>
                              rec.schema = _default_schema
                        /\ ~Exists(prompts[kb_id]) =>
                              rec.prompts = _default_prompts
                        /\ Parses(schema[kb_id]) =>
                              rec.schema = schema[kb_id].doc
                        /\ Parses(prompts[kb_id]) =>
                              rec.prompts = prompts[kb_id].doc

\* A create was interrupted after meta.json: the directory is there with no
\* schema.json and no index entry, and the record reads with the defaults.
C16_Witness ==
    \E p \in Procs :
        /\ run[p].pc = "crashed"
        /\ run[p].op = "create"
        /\ run[p].kb_id \in dirs
        /\ Parses(meta[run[p].kb_id])
        /\ ~Exists(schema[run[p].kb_id])
        /\ EntriesOf(_load_index, run[p].kb_id) = {}
        /\ get_knowledge_base(run[p].kb_id).schema = _default_schema

====
